---- MODULE Spec2Model ----
(***************************************************************************)
(* The adaptive request-pacing controller of src/analyzer.py               *)
(* (class SmartAnalyzer) as a state machine.                               *)
(*                                                                         *)
(* Durations and instants are fixed-point numbers in thousandths of a      *)
(* second (3.0 s is 3000); a product with a factor is truncated to a       *)
(* thousandth.  The factors 0.9, 1.5, 0.8 and 1.2 are kept per mille.      *)
(* The clock counts thousandths of a second since an arbitrary origin      *)
(* that lies more than one day before the construction of the controller.  *)
(***************************************************************************)
EXTENDS Integers, Sequences, FiniteSets, TLC

VARIABLES
  events,                 \* SmartAnalyzer.events
  current_delay,          \* SmartAnalyzer.current_delay
  consecutive_successes,  \* SmartAnalyzer.consecutive_successes
  consecutive_failures,   \* SmartAnalyzer.consecutive_failures
  last_request_time,      \* SmartAnalyzer.last_request_time
  rate_limit_detected,    \* SmartAnalyzer.rate_limit_detected
  file,                   \* analysis_file: <<>> (absent) or <<its content>>
  now,                    \* time.time()
  wpc,                    \* per worker: position inside wait_with_progress
  wdelay,                 \* per worker: local `delay` of wait_with_progress
  wstart,                 \* per worker: local `start_time` of wait_with_progress
  wwake,                  \* per worker: instant at which its time.sleep returns
  op,                     \* name of the operation that completed last
  arg,                    \* its input
  ret,                    \* its returned value
  pre,                    \* the controller fields when it was called
  nrec,                   \* record_event calls since construction
  boots,                  \* constructions of the controller so far
  saved,                  \* _save_analysis calls so far, and the controller
                          \* fields and the instant of the last one that wrote
  crawl                   \* InstagramCrawler: its position and its locals

vars == <<events, current_delay, consecutive_successes, consecutive_failures,
          last_request_time, rate_limit_detected, file, now, wpc, wdelay,
          wstart, wwake, op, arg, ret, pre, nrec, boots, saved, crawl>>

ctrl == <<events, current_delay, consecutive_successes, consecutive_failures,
          rate_limit_detected>>

waitvars == <<wpc, wdelay, wstart, wwake>>

-----------------------------------------------------------------------------
(* Bounds of the model *)

\* record_event calls explored after construction
MaxEvents == 5

\* the clock value at construction
StartTime == 100000000

\* record_event calls explored while waits and the clock are explored too
MaxWaitEvents == 1

\* clock steps explored after construction
MaxTicks == 6

\* record_event calls explored while saves and restarts are explored too
MaxPersistEvents == 10

\* constructions of the controller explored, the first one included
MaxBoots == 2

\* record_event calls explored after a construction over any file
MaxLoadEvents == 2

\* seconds of the clock while one caller only waits
MaxSleepTicks == 8

\* record_event calls of any kind before a run of one class of outcome
MaxPrefix == 1

\* longest run of successes, and of failures, explored
MaxSuccessRun == 28

MaxFailureRun == 8

\* posts of the crawled profile
MaxPosts == 12

\* requests of one crawl that end in a rate limit or an error
MaxCrawlFailures == 1

-----------------------------------------------------------------------------
(* RateLimitConfig, src/config.py *)

min_delay == 3000
max_dynamic_delay == 30000
batch_size == 10
batch_delay == 300000
error_delay == 60000
rate_limit_delay == 900000
success_reduction == 900
failure_increase == 1500

(* literals of src/analyzer.py *)

SuccessThreshold == 5
FailureThreshold == 2
RateLimitFactor == 2
BatchBonusThreshold == 20
BatchPenalty == 1500
BatchBonus == 800
JitterLow == 800
JitterHigh == 1200
SaveEvery == 10
KeepEvents == 100
MaxSnapshotAge == 86400000
ReportWindow == 3600000
ProgressThreshold == 5000
ProgressTick == 1000

-----------------------------------------------------------------------------
(* Arithmetic *)

Min(a, b) == IF a <= b THEN a ELSE b

Max(a, b) == IF a >= b THEN a ELSE b

\* x * f for a factor f given per mille
Mul(x, f) == (x * f) \div 1000

Kinds == {"success", "rate_limit", "error", "timeout"}

Failures == {"rate_limit", "error", "timeout"}

-----------------------------------------------------------------------------
(* record_event and _adjust_delay *)

RateLimitEvent(t, kind, delay_used, response_time, error_message) ==
  [timestamp |-> t, event_type |-> kind, delay_used |-> delay_used,
   response_time |-> response_time, error_message |-> error_message]

\* variant: a failure leaves the success counter alone
UpdateSuccessesNoReset(kind, cs) ==
  IF kind = "success" THEN cs + 1 ELSE cs

UpdateSuccesses(kind, cs) ==
  IF kind = "success" THEN cs + 1
  ELSE IF kind \in Failures THEN 0
  ELSE cs

\* variant: a success leaves the failure counter alone
UpdateFailuresNoReset(kind, cf) ==
  IF kind \in Failures THEN cf + 1 ELSE cf

UpdateFailures(kind, cf) ==
  IF kind = "success" THEN 0
  ELSE IF kind \in Failures THEN cf + 1
  ELSE cf

\* variant: every outcome other than rate_limit clears the flag
UpdateFlagClearsOnError(kind, flag) ==
  IF kind = "rate_limit" THEN TRUE ELSE FALSE

\* variant: a timeout sets the flag as a rate_limit does
UpdateFlagTimeoutSets(kind, flag) ==
  IF kind = "success" THEN FALSE
  ELSE IF kind \in {"rate_limit", "timeout"} THEN TRUE
  ELSE flag

\* variant: a success leaves the flag as it was
UpdateFlagSuccessKeeps(kind, flag) ==
  IF kind = "rate_limit" THEN TRUE ELSE flag

UpdateFlag(kind, flag) ==
  IF kind = "success" THEN FALSE
  ELSE IF kind = "rate_limit" THEN TRUE
  ELSE flag

\* variant: the reduction without its clamp to min_delay
SuccessStepNoFloor(d) == Mul(d, success_reduction)

\* variant: the success branch multiplies by the failure factor
SuccessStepRaises(d) == Max(Mul(d, failure_increase), min_delay)

SuccessStep(d) == Max(Mul(d, success_reduction), min_delay)

\* variant: the failure branch multiplies by the success factor
FailureStepWrongFactor(d) == Min(Mul(d, success_reduction), max_dynamic_delay)

FailureStep(d) == Min(Mul(d, failure_increase), max_dynamic_delay)

\* variant: the doubling without its clamp to max_dynamic_delay
RateLimitStepNoClamp(d) == d * RateLimitFactor

RateLimitStep(d) == Min(max_dynamic_delay, d * RateLimitFactor)

\* variant: the rate-limit doubling is one more elif of the chain
AdjustDelayElif(d, cs, cf, flag) ==
  IF cs >= SuccessThreshold THEN Max(Mul(d, success_reduction), min_delay)
  ELSE IF cf >= FailureThreshold
       THEN Min(Mul(d, failure_increase), max_dynamic_delay)
  ELSE IF flag /\ cf >= 1 THEN Min(max_dynamic_delay, d * RateLimitFactor)
  ELSE d

\* variant: the steps are taken from the first success and the first failure
AdjustDelayNoThreshold(d, cs, cf, flag) ==
  LET d1 == IF cs >= 1 THEN SuccessStep(d)
            ELSE IF cf >= 1 THEN FailureStep(d)
            ELSE d
  IN  IF flag /\ cf >= 1 THEN RateLimitStep(d1) ELSE d1

\* variant: a step is taken only as a counter reaches its threshold
AdjustDelayAtThreshold(d, cs, cf, flag) ==
  LET d1 == IF cs = SuccessThreshold THEN SuccessStep(d)
            ELSE IF cf = FailureThreshold THEN FailureStep(d)
            ELSE d
  IN  IF flag /\ cf >= 1 THEN RateLimitStep(d1) ELSE d1

AdjustDelay(d, cs, cf, flag) ==
  LET d1 == IF cs >= SuccessThreshold THEN SuccessStep(d)
            ELSE IF cf >= FailureThreshold THEN FailureStep(d)
            ELSE d
  IN  IF flag /\ cf >= 1 THEN RateLimitStep(d1) ELSE d1

\* variant: the oldest n events are kept
LastEventsOldest(evs, n) ==
  IF Len(evs) <= n THEN evs ELSE SubSeq(evs, 1, n)

\* evs[-n:]
LastEvents(evs, n) ==
  IF Len(evs) <= n THEN evs ELSE SubSeq(evs, Len(evs) - n + 1, Len(evs))

EventKeys ==
  {"timestamp", "event_type", "delay_used", "response_time", "error_message"}

\* the fields of RateLimitEvent that have no default
RequiredKeys == {"timestamp", "event_type", "delay_used"}

\* dataclasses.asdict(e): the JSON object of one event
AsDict(e) == [k \in EventKeys |-> e[k]]

\* the snapshot _save_analysis writes for controller fields st at time t
Snapshot(st, t) ==
  LET kept == LastEvents(st.events, KeepEvents)
  IN  [current_delay |-> st.current_delay,
       consecutive_successes |-> st.consecutive_successes,
       consecutive_failures |-> st.consecutive_failures,
       rate_limit_detected |-> st.rate_limit_detected,
       last_updated |-> t,
       recent_events |-> [i \in 1..Len(kept) |-> AsDict(kept[i])]]

\* a file holding the JSON text of `data`
JsonText(data) == [valid |-> TRUE, data |-> data]

\* a file whose text is not JSON: open(.., 'w') emptied it and the write failed
Truncated == [valid |-> FALSE, data |-> [k \in {} |-> 0]]

\* what the file system does to a save: it takes it, open() raises, or the
\* write raises after open() has emptied the file
IOOutcomes == {"ok", "open_fails", "write_fails"}

\* variant: no except clause around the write
SaveAnalysisUncaught(st, f, t, io) ==
  [file   |-> IF io = "ok" THEN <<JsonText(Snapshot(st, t))>>
              ELSE IF io = "open_fails" THEN f
              ELSE <<Truncated>>,
   raised |-> io # "ok"]

\* _save_analysis: the file it leaves, and whether an exception leaves it
SaveAnalysis(st, f, t, io) ==
  [file   |-> IF io = "ok" THEN <<JsonText(Snapshot(st, t))>>
              ELSE IF io = "open_fails" THEN f
              ELSE <<Truncated>>,
   raised |-> FALSE]

\* variant: every call saves
RecordStepSavesAlways(st, f, kind, delay_used, t, io) ==
  LET evs  == Append(st.events, RateLimitEvent(t, kind, delay_used, 0, ""))
      cs   == UpdateSuccesses(kind, st.consecutive_successes)
      cf   == UpdateFailures(kind, st.consecutive_failures)
      flag == UpdateFlag(kind, st.rate_limit_detected)
      new  == [events |-> evs,
               current_delay |-> AdjustDelay(st.current_delay, cs, cf, flag),
               consecutive_successes |-> cs,
               consecutive_failures |-> cf,
               rate_limit_detected |-> flag]
      due  == TRUE
      sv   == SaveAnalysis(new, f, t, io)
  IN  [st     |-> new,
       file   |-> IF due THEN sv.file ELSE f,
       saves  |-> due,
       raised |-> due /\ sv.raised]

\* variant: a call that saves also cuts self.events to its last 100 events
RecordStepTrimsLog(st, f, kind, delay_used, t, io) ==
  LET evs  == Append(st.events, RateLimitEvent(t, kind, delay_used, 0, ""))
      cs   == UpdateSuccesses(kind, st.consecutive_successes)
      cf   == UpdateFailures(kind, st.consecutive_failures)
      flag == UpdateFlag(kind, st.rate_limit_detected)
      new  == [events |-> IF Len(evs) % SaveEvery = 0
                          THEN LastEvents(evs, KeepEvents) ELSE evs,
               current_delay |-> AdjustDelay(st.current_delay, cs, cf, flag),
               consecutive_successes |-> cs,
               consecutive_failures |-> cf,
               rate_limit_detected |-> flag]
      due  == Len(evs) % SaveEvery = 0
      sv   == SaveAnalysis(new, f, t, io)
  IN  [st     |-> new,
       file   |-> IF due THEN sv.file ELSE f,
       saves  |-> due,
       raised |-> due /\ sv.raised]

\* record_event(kind, delay_used) at time t on controller fields st and file f:
\* the fields and the file it leaves, whether it called _save_analysis and
\* whether an exception leaves it; response_time and error_message are only
\* stored, and are kept 0 and ""
RecordStep(st, f, kind, delay_used, t, io) ==
  LET evs  == Append(st.events, RateLimitEvent(t, kind, delay_used, 0, ""))
      cs   == UpdateSuccesses(kind, st.consecutive_successes)
      cf   == UpdateFailures(kind, st.consecutive_failures)
      flag == UpdateFlag(kind, st.rate_limit_detected)
      new  == [events |-> evs,
               current_delay |-> AdjustDelay(st.current_delay, cs, cf, flag),
               consecutive_successes |-> cs,
               consecutive_failures |-> cf,
               rate_limit_detected |-> flag]
      due  == Len(evs) % SaveEvery = 0
      sv   == SaveAnalysis(new, f, t, io)
  IN  [st     |-> new,
       file   |-> IF due THEN sv.file ELSE f,
       saves  |-> due,
       raised |-> due /\ sv.raised]

-----------------------------------------------------------------------------
(* __init__ and _load_analysis *)

FreshState ==
  [events |-> <<>>,
   current_delay |-> min_delay,
   consecutive_successes |-> 0,
   consecutive_failures |-> 0,
   rate_limit_detected |-> FALSE]

\* dict.get(k, default)
Get(d, k, default) == IF k \in DOMAIN d THEN d[k] ELSE default

\* RateLimitEvent(**d) raises on an unknown keyword and on a missing
\* required one
Accepts(d) == DOMAIN d \subseteq EventKeys /\ RequiredKeys \subseteq DOMAIN d

\* variant: delay_used is not read back
FromDictNoDelay(d) ==
  RateLimitEvent(d.timestamp, d.event_type, 0,
                 Get(d, "response_time", 0), Get(d, "error_message", ""))

\* RateLimitEvent(**d)
FromDict(d) ==
  RateLimitEvent(d.timestamp, d.event_type, d.delay_used,
                 Get(d, "response_time", 0), Get(d, "error_message", ""))

\* variant: a snapshot aged exactly one day is still loaded
LoadAnalysisInclusive(f, t) ==
  IF f = <<>> THEN FreshState
  ELSE IF ~f[1].valid THEN FreshState
  ELSE LET data    == f[1].data
           entries == Get(data, "recent_events", <<>>)
       IN  IF t - Get(data, "last_updated", 0) <= MaxSnapshotAge
           THEN [events |->
                   IF \A i \in DOMAIN entries : Accepts(entries[i])
                   THEN [i \in DOMAIN entries |-> FromDict(entries[i])]
                   ELSE <<>>,
                 current_delay |-> Get(data, "current_delay", min_delay),
                 consecutive_successes |->
                   Get(data, "consecutive_successes", 0),
                 consecutive_failures |->
                   Get(data, "consecutive_failures", 0),
                 rate_limit_detected |->
                   Get(data, "rate_limit_detected", FALSE)]
           ELSE FreshState

\* the controller fields after _load_analysis at time t.  An absent file, a
\* text that is not JSON and a snapshot that is too old leave the fields of
\* __init__; an exception raised while the events are rebuilt (line 202)
\* leaves self.events as __init__ set it and keeps the assignments of
\* lines 195-198.
LoadAnalysis(f, t) ==
  IF f = <<>> THEN FreshState
  ELSE IF ~f[1].valid THEN FreshState
  ELSE LET data    == f[1].data
           entries == Get(data, "recent_events", <<>>)
       IN  IF t - Get(data, "last_updated", 0) < MaxSnapshotAge
           THEN [events |->
                   IF \A i \in DOMAIN entries : Accepts(entries[i])
                   THEN [i \in DOMAIN entries |-> FromDict(entries[i])]
                   ELSE <<>>,
                 current_delay |-> Get(data, "current_delay", min_delay),
                 consecutive_successes |->
                   Get(data, "consecutive_successes", 0),
                 consecutive_failures |->
                   Get(data, "consecutive_failures", 0),
                 rate_limit_detected |->
                   Get(data, "rate_limit_detected", FALSE)]
           ELSE FreshState

-----------------------------------------------------------------------------
(* What an earlier process can have left in analysis_file: the outcomes it *)
(* recorded, one every min_delay, the last one `age` before construction.  *)

Rep(x, n) == [i \in 1..n |-> x]

Outcome(kind) ==
  [kind |-> kind,
   delay_used |-> IF kind = "rate_limit" THEN rate_limit_delay ELSE 0]

\* the script is run half by half, the first half before the second, which
\* keeps the evaluation shallow
RECURSIVE RunFrom(_, _, _, _)
RunFrom(st, f, script, t) ==
  IF script = <<>> THEN [st |-> st, file |-> f]
  ELSE IF Len(script) = 1
  THEN LET r == RecordStep(st, f, script[1].kind, script[1].delay_used,
                           t, "ok")
       IN  [st |-> r.st, file |-> r.file]
  ELSE LET h == Len(script) \div 2
           a == RunFrom(st, f, SubSeq(script, 1, h), t)
       IN  IF Len(a.st.events) = Len(st.events) + h
           THEN RunFrom(a.st, a.file, SubSeq(script, h + 1, Len(script)),
                        t + h * min_delay)
           ELSE a

PriorRuns ==
  { Rep(Outcome("success"), 10),
    Rep(Outcome("success"), 9) \o <<Outcome("rate_limit")>>,
    Rep(Outcome("rate_limit"), 4) \o Rep(Outcome("success"), 6) }

SnapshotAges == {600000}

PriorFile(script, age) ==
  RunFrom(FreshState, <<>>, script,
          StartTime - age - (Len(script) - 1) * min_delay).file

InitialFiles ==
  {<<>>} \cup {PriorFile(s, a) : s \in PriorRuns, a \in SnapshotAges}

-----------------------------------------------------------------------------
(* State *)

Workers == {1}

Fields ==
  [current_delay |-> current_delay,
   consecutive_successes |-> consecutive_successes,
   consecutive_failures |-> consecutive_failures,
   rate_limit_detected |-> rate_limit_detected,
   last_request_time |-> last_request_time,
   nevents |-> Len(events)]

\* no _save_analysis call yet
NothingSaved == [calls |-> 0, st |-> FreshState, at |-> 0]

\* SmartAnalyzer() at StartTime with f in analysis_file
InitFrom(f) ==
  LET st == LoadAnalysis(f, StartTime)
  IN  /\ file = f
      /\ now = StartTime
      /\ events = st.events
      /\ current_delay = st.current_delay
      /\ consecutive_successes = st.consecutive_successes
      /\ consecutive_failures = st.consecutive_failures
      /\ rate_limit_detected = st.rate_limit_detected
      /\ last_request_time = 0
      /\ wpc = [w \in Workers |-> "idle"]
      /\ wdelay = [w \in Workers |-> 0]
      /\ wstart = [w \in Workers |-> 0]
      /\ wwake = [w \in Workers |-> 0]
      /\ op = "init"
      /\ arg = <<>>
      /\ ret = <<>>
      /\ pre = [current_delay |-> st.current_delay,
                consecutive_successes |-> st.consecutive_successes,
                consecutive_failures |-> st.consecutive_failures,
                rate_limit_detected |-> st.rate_limit_detected,
                last_request_time |-> 0,
                nevents |-> Len(st.events)]
      /\ nrec = 0
      /\ boots = 1
      /\ saved = NothingSaved

\* the crawler's fields while the controller is driven by any caller:
\* pc is its position, attempt the loop variable of _load_profile_safely,
\* processed the processed_count of _crawl_posts, posts the posts the
\* iterator has yet to yield, stories whether stories were asked for, session
\* whether session_username is set, delay the local `delay`, outcome how the
\* last request ended, failures the requests that did not succeed; prep tells
\* whether get_next_delay ("delayed") and then wait_with_progress ("waited")
\* were called since the last request, owed counts the requests issued minus
\* the record_event calls made, breaks the batch cooldowns taken
NoCrawler ==
  [pc |-> "off", attempt |-> 0, processed |-> 0, posts |-> 0,
   stories |-> FALSE, session |-> FALSE, delay |-> 0, outcome |-> "",
   failures |-> 0, prep |-> "none", owed |-> 0, breaks |-> 0]

Init == \E f \in InitialFiles : InitFrom(f) /\ crawl = NoCrawler

\* no caller is inside wait_with_progress
Idle == \A w \in DOMAIN wpc : wpc[w] = "idle"

-----------------------------------------------------------------------------
(* Operations *)

\* ret is <<>> for a call that returns and names the exception of one that
\* does not
RecordEvent(kind, delay_used, io) ==
  LET r == RecordStep([events |-> events,
                       current_delay |-> current_delay,
                       consecutive_successes |-> consecutive_successes,
                       consecutive_failures |-> consecutive_failures,
                       rate_limit_detected |-> rate_limit_detected],
                      file, kind, delay_used, now, io)
  IN  /\ Idle
      /\ events' = r.st.events
      /\ current_delay' = r.st.current_delay
      /\ consecutive_successes' = r.st.consecutive_successes
      /\ consecutive_failures' = r.st.consecutive_failures
      /\ rate_limit_detected' = r.st.rate_limit_detected
      /\ file' = r.file
      /\ op' = "record_event"
      /\ arg' = <<kind, delay_used, io>>
      /\ ret' = IF r.raised THEN <<"OSError">> ELSE <<>>
      /\ pre' = Fields
      /\ nrec' = nrec + 1
      /\ saved' = IF ~r.saves THEN saved
                  ELSE [calls |-> saved.calls + 1,
                        st    |-> IF io = "ok" THEN r.st ELSE saved.st,
                        at    |-> IF io = "ok" THEN now ELSE saved.at]
      /\ UNCHANGED <<last_request_time, now, waitvars, boots>>

Jitters == {JitterLow, 900, 1000, 1100, JitterHigh}

\* variant: the doubled delay is returned without the final min
NextDelayUnclamped(d, flag, jitter) ==
  IF flag THEN Mul(d, jitter) * 2 ELSE Mul(d, jitter)

NextDelay(d, flag, jitter) ==
  LET calculated == Mul(d, jitter)
  IN  Min(IF flag THEN calculated * 2 ELSE calculated, max_dynamic_delay)

\* variant: get_next_delay stores what it returns in current_delay
GetNextDelayStoring(jitter) ==
  /\ Idle
  /\ op' = "get_next_delay"
  /\ arg' = <<jitter>>
  /\ ret' = Min(IF rate_limit_detected THEN Mul(current_delay, jitter) * 2
                ELSE Mul(current_delay, jitter), max_dynamic_delay)
  /\ current_delay' = ret'
  /\ pre' = Fields
  /\ UNCHANGED <<events, consecutive_successes, consecutive_failures,
                 rate_limit_detected, last_request_time, file, now, waitvars,
                 nrec, boots, saved>>

GetNextDelay(jitter) ==
  /\ Idle
  /\ op' = "get_next_delay"
  /\ arg' = <<jitter>>
  /\ ret' = NextDelay(current_delay, rate_limit_detected, jitter)
  /\ pre' = Fields
  /\ UNCHANGED <<ctrl, last_request_time, file, now, waitvars, nrec, boots, saved>>

\* variant: without the test items_processed > 0
ShouldTakeBatchBreakAtZero(items_processed) ==
  items_processed % batch_size = 0

ShouldTakeBatchBreak(items_processed) ==
  items_processed > 0 /\ items_processed % batch_size = 0

ShouldTakeBatchBreakCall(items_processed) ==
  /\ Idle
  /\ op' = "should_take_batch_break"
  /\ arg' = <<items_processed>>
  /\ ret' = ShouldTakeBatchBreak(items_processed)
  /\ pre' = Fields
  /\ UNCHANGED <<ctrl, last_request_time, file, now, waitvars, nrec, boots, saved>>

\* variant: the bonus starts at 20 successes
BatchDelayInclusive(flag, cs) ==
  IF flag THEN Mul(batch_delay, BatchPenalty)
  ELSE IF cs >= BatchBonusThreshold THEN Mul(batch_delay, BatchBonus)
  ELSE batch_delay

BatchDelay(flag, cs) ==
  IF flag THEN Mul(batch_delay, BatchPenalty)
  ELSE IF cs > BatchBonusThreshold THEN Mul(batch_delay, BatchBonus)
  ELSE batch_delay

GetBatchDelay ==
  /\ Idle
  /\ op' = "get_batch_delay"
  /\ arg' = <<>>
  /\ ret' = BatchDelay(rate_limit_detected, consecutive_successes)
  /\ pre' = Fields
  /\ UNCHANGED <<ctrl, last_request_time, file, now, waitvars, nrec, boots, saved>>

RECURSIVE SumDelayUsed(_)
SumDelayUsed(evs) ==
  IF evs = <<>> THEN 0 ELSE Head(evs).delay_used + SumDelayUsed(Tail(evs))

IsRecent(e) == e.timestamp > now - ReportWindow

IsSuccess(e) == e.event_type = "success"

\* variant: the two thresholds are inclusive
StatusReportInclusive ==
  LET recent == SelectSeq(events, IsRecent)
      n      == Len(recent)
      succ   == Len(SelectSeq(recent, IsSuccess))
      status == IF rate_limit_detected THEN "rate_limited"
                ELSE IF succ * 10 >= 9 * n THEN "optimal"
                ELSE IF succ * 10 >= 7 * n THEN "cautious"
                ELSE "problematic"
  IN  IF n = 0
      THEN [status |-> "no_data",
            current_delay |-> current_delay,
            rate_limit_detected |-> FALSE]
      ELSE [status |-> status,
            success_rate |-> <<succ, n>>,
            current_delay |-> current_delay,
            avg_delay |-> SumDelayUsed(recent) \div n,
            consecutive_successes |-> consecutive_successes,
            consecutive_failures |-> consecutive_failures,
            rate_limit_detected |-> rate_limit_detected,
            events_last_hour |-> n]

\* variant: without data the report still carries the flag
StatusReportShowsFlag ==
  LET recent == SelectSeq(events, IsRecent)
      n      == Len(recent)
      succ   == Len(SelectSeq(recent, IsSuccess))
      status == IF rate_limit_detected THEN "rate_limited"
                ELSE IF succ * 10 > 9 * n THEN "optimal"
                ELSE IF succ * 10 > 7 * n THEN "cautious"
                ELSE "problematic"
  IN  IF n = 0
      THEN [status |-> "no_data",
            current_delay |-> current_delay,
            rate_limit_detected |-> rate_limit_detected]
      ELSE [status |-> status,
            success_rate |-> <<succ, n>>,
            current_delay |-> current_delay,
            avg_delay |-> SumDelayUsed(recent) \div n,
            consecutive_successes |-> consecutive_successes,
            consecutive_failures |-> consecutive_failures,
            rate_limit_detected |-> rate_limit_detected,
            events_last_hour |-> n]

\* success_rate is kept as the pair <<successes, events>> it is the quotient of
StatusReport ==
  LET recent == SelectSeq(events, IsRecent)
      n      == Len(recent)
      succ   == Len(SelectSeq(recent, IsSuccess))
      status == IF rate_limit_detected THEN "rate_limited"
                ELSE IF succ * 10 > 9 * n THEN "optimal"
                ELSE IF succ * 10 > 7 * n THEN "cautious"
                ELSE "problematic"
  IN  IF n = 0
      THEN [status |-> "no_data",
            current_delay |-> current_delay,
            rate_limit_detected |-> FALSE]
      ELSE [status |-> status,
            success_rate |-> <<succ, n>>,
            current_delay |-> current_delay,
            avg_delay |-> SumDelayUsed(recent) \div n,
            consecutive_successes |-> consecutive_successes,
            consecutive_failures |-> consecutive_failures,
            rate_limit_detected |-> rate_limit_detected,
            events_last_hour |-> n]

GetStatusReport ==
  /\ Idle
  /\ op' = "get_status_report"
  /\ arg' = <<>>
  /\ ret' = StatusReport
  /\ pre' = Fields
  /\ UNCHANGED <<ctrl, last_request_time, file, now, waitvars, nrec, boots, saved>>

\* the process ends and, dt later, main() constructs the next SmartAnalyzer
Restart(dt) ==
  LET st == LoadAnalysis(file, now + dt)
  IN  /\ Idle
      /\ now' = now + dt
      /\ events' = st.events
      /\ current_delay' = st.current_delay
      /\ consecutive_successes' = st.consecutive_successes
      /\ consecutive_failures' = st.consecutive_failures
      /\ rate_limit_detected' = st.rate_limit_detected
      /\ last_request_time' = 0
      /\ op' = "init"
      /\ arg' = <<>>
      /\ ret' = <<>>
      /\ pre' = [current_delay |-> st.current_delay,
                 consecutive_successes |-> st.consecutive_successes,
                 consecutive_failures |-> st.consecutive_failures,
                 rate_limit_detected |-> st.rate_limit_detected,
                 last_request_time |-> 0,
                 nevents |-> Len(st.events)]
      /\ nrec' = 0
      /\ boots' = boots + 1
      /\ UNCHANGED <<file, waitvars, saved>>

-----------------------------------------------------------------------------
(* wait_with_progress.  time.sleep(d) returns once the clock has advanced  *)
(* by at least d; the clock advances by Tick.                              *)

\* variant: the shorter of the requested delay and the remaining spacing
EffectiveDelayMin(delay, last, t) ==
  IF last > 0 /\ t - last < min_delay
  THEN Min(delay, min_delay - (t - last))
  ELSE delay

\* the local `delay` after the minimum-spacing block (lines 210-216)
EffectiveDelay(delay, last, t) ==
  IF last > 0 /\ t - last < min_delay
  THEN Max(delay, min_delay - (t - last))
  ELSE delay

WaitCall(w, delay) ==
  LET d == EffectiveDelay(delay, last_request_time, now)
  IN  /\ wpc[w] = "idle"
      /\ wdelay' = [wdelay EXCEPT ![w] = d]
      /\ wstart' = [wstart EXCEPT ![w] = IF d > ProgressThreshold THEN now ELSE @]
      /\ wwake' = [wwake EXCEPT ![w] = IF d > 0 /\ d <= ProgressThreshold
                                        THEN now + d ELSE @]
      /\ wpc' = [wpc EXCEPT ![w] = IF d <= 0 THEN "write"
                                    ELSE IF d > ProgressThreshold THEN "loop"
                                    ELSE "sleep"]
      /\ op' = "wait_call"
      /\ arg' = <<delay>>
      /\ ret' = <<>>
      /\ pre' = Fields
      /\ UNCHANGED <<ctrl, last_request_time, file, now, nrec, boots, saved>>

\* the `while time.time() - start_time < delay` test and the sleep(1) it guards
WaitLoop(w) ==
  /\ wpc[w] = "loop"
  /\ IF now - wstart[w] < wdelay[w]
     THEN /\ wwake' = [wwake EXCEPT ![w] = now + ProgressTick]
          /\ wpc' = [wpc EXCEPT ![w] = "tick"]
     ELSE /\ wpc' = [wpc EXCEPT ![w] = "write"]
          /\ UNCHANGED wwake
  /\ UNCHANGED <<ctrl, last_request_time, file, now, wdelay, wstart,
                 op, arg, ret, pre, nrec, boots, saved>>

\* variant: time.sleep may return before the time asked for has passed
WaitWakeEarly(w) ==
  /\ wpc[w] \in {"sleep", "tick"}
  /\ wpc' = [wpc EXCEPT ![w] = IF @ = "sleep" THEN "write" ELSE "loop"]
  /\ UNCHANGED <<ctrl, last_request_time, file, now, wdelay, wstart, wwake,
                 op, arg, ret, pre, nrec, boots, saved>>

\* time.sleep returns
WaitWake(w) ==
  /\ wpc[w] \in {"sleep", "tick"}
  /\ now >= wwake[w]
  /\ wpc' = [wpc EXCEPT ![w] = IF @ = "sleep" THEN "write" ELSE "loop"]
  /\ UNCHANGED <<ctrl, last_request_time, file, now, wdelay, wstart, wwake,
                 op, arg, ret, pre, nrec, boots, saved>>

\* self.last_request_time = time.time() (line 219 or 246) and the return
WaitWrite(w) ==
  /\ wpc[w] = "write"
  /\ last_request_time' = now
  /\ wpc' = [wpc EXCEPT ![w] = "idle"]
  /\ wdelay' = [wdelay EXCEPT ![w] = 0]
  /\ wstart' = [wstart EXCEPT ![w] = 0]
  /\ wwake' = [wwake EXCEPT ![w] = 0]
  /\ op' = "wait_with_progress"
  /\ UNCHANGED <<ctrl, file, now, arg, ret, pre, nrec, boots, saved>>

\* variant: the write of last_request_time sits in a finally clause
WaitInterruptWrites(w) ==
  /\ wpc[w] \in {"loop", "tick", "sleep"}
  /\ last_request_time' = now
  /\ wpc' = [wpc EXCEPT ![w] = "idle"]
  /\ wdelay' = [wdelay EXCEPT ![w] = 0]
  /\ wstart' = [wstart EXCEPT ![w] = 0]
  /\ wwake' = [wwake EXCEPT ![w] = 0]
  /\ op' = "wait_interrupted"
  /\ UNCHANGED <<ctrl, file, now, arg, ret, pre, nrec, boots, saved>>

\* KeyboardInterrupt raised in time.sleep or in the progress loop: nothing
\* in wait_with_progress catches it, the call is left at once
WaitInterrupt(w) ==
  /\ wpc[w] \in {"loop", "tick", "sleep"}
  /\ wpc' = [wpc EXCEPT ![w] = "idle"]
  /\ wdelay' = [wdelay EXCEPT ![w] = 0]
  /\ wstart' = [wstart EXCEPT ![w] = 0]
  /\ wwake' = [wwake EXCEPT ![w] = 0]
  /\ op' = "wait_interrupted"
  /\ UNCHANGED <<ctrl, last_request_time, file, now, arg, ret, pre, nrec, boots, saved>>

ClockSteps == {1000}

Tick(dt) ==
  /\ now + dt <= StartTime + MaxTicks * 1000
  /\ now' = now + dt
  /\ UNCHANGED <<ctrl, last_request_time, file, waitvars, op, arg, ret, pre,
                 nrec, boots, saved>>

-----------------------------------------------------------------------------
(* InstagramCrawler, src/src/crawler.py: login, then crawl_profile for       *)
(* posts and, if asked for, stories.  A request is a call into instaloader  *)
(* that goes to the network; it takes no time in the model.                 *)

max_retries == 3

StoriesFactor == 2

\* what is left of the controller when the crawler takes a step of its own
analyzer ==
  <<ctrl, last_request_time, file, now, waitvars, op, arg, ret, pre, nrec,
    boots, saved>>

\* how a request can end, by the position it is issued at
RequestOutcomes(pc) ==
  IF pc = "login" THEN {"success", "error"}
  ELSE IF pc = "profile_request"
  THEN {"success", "not_exists", "login_required", "rate_limit", "error"}
  ELSE {"success", "rate_limit", "error"}

\* login, lines 74-79: the session file exists and loads; no request
LoginFromFile ==
  /\ crawl.pc = "login"
  /\ crawl' = [crawl EXCEPT !.pc = "profile_request", !.session = TRUE]
  /\ UNCHANGED analyzer

\* loader.login (line 85), Profile.from_username (line 155), the work on one
\* post (lines 228-262), loader.get_stories (line 309)
Request(outcome) ==
  /\ Idle
  /\ crawl.pc \in {"login", "profile_request", "post_request",
                   "stories_request"}
  /\ outcome \in RequestOutcomes(crawl.pc)
  /\ outcome \in {"rate_limit", "error"} => crawl.failures < MaxCrawlFailures
  /\ crawl' = [crawl EXCEPT
                 !.pc = IF @ = "login" THEN "login_result"
                        ELSE IF @ = "profile_request" THEN "profile_result"
                        ELSE IF @ = "post_request" THEN "post_result"
                        ELSE "stories_result",
                 !.outcome = outcome,
                 !.failures = IF outcome \in {"rate_limit", "error"}
                              THEN @ + 1 ELSE @,
                 !.prep = "none",
                 !.owed = @ + 1]
  /\ op' = "request"
  /\ arg' = <<crawl.pc, outcome>>
  /\ ret' = <<>>
  /\ pre' = Fields
  /\ UNCHANGED <<ctrl, last_request_time, file, now, waitvars, nrec, boots,
                 saved>>

\* the event_type the crawler reports: _crawl_stories has one except clause
ReportKind(c) ==
  IF c.pc = "stories_result" /\ c.outcome # "success" THEN "error"
  ELSE c.outcome

\* the delay_used the crawler reports
ReportDelay(c) ==
  IF c.pc = "login_result" THEN 0
  ELSE IF c.pc = "profile_result"
  THEN IF c.outcome = "rate_limit"
       THEN rate_limit_delay * (c.attempt + 1) ELSE 0
  ELSE IF c.pc = "post_result" /\ c.outcome = "rate_limit"
  THEN rate_limit_delay
  ELSE c.delay

\* where the crawler goes once it has reported
AfterReport(c) ==
  IF c.pc = "login_result"
  THEN [c EXCEPT !.pc = "profile_request",
                 !.session = (c.outcome = "success")]
  ELSE IF c.pc = "profile_result"
  THEN IF c.outcome = "success" THEN [c EXCEPT !.pc = "post_check"]
       ELSE IF c.attempt < max_retries - 1
       THEN [c EXCEPT !.pc = "profile_cooldown",
                      !.delay = IF c.outcome = "rate_limit"
                                THEN rate_limit_delay * (c.attempt + 1)
                                ELSE error_delay * (c.attempt + 1)]
       ELSE [c EXCEPT !.pc = "done"]
  ELSE IF c.pc = "post_result"
  THEN IF c.outcome = "success"
       THEN [c EXCEPT !.pc = "post_check", !.processed = @ + 1,
                      !.posts = @ - 1]
       ELSE IF c.outcome = "rate_limit"
       THEN [c EXCEPT !.pc = "post_recover", !.delay = rate_limit_delay]
       ELSE [c EXCEPT !.pc = "post_check", !.posts = @ - 1]
  ELSE [c EXCEPT !.pc = "done"]

\* the record_event call that follows a request (lines 92, 97, 158, 182, 193,
\* 265, 276, 282, 332, 336)
Report ==
  /\ crawl.pc \in {"login_result", "profile_result", "post_result",
                   "stories_result"}
  /\ crawl.outcome \in {"success", "rate_limit", "error"}
  /\ RecordEvent(ReportKind(crawl), ReportDelay(crawl), "ok")
  /\ crawl' = [AfterReport(crawl) EXCEPT !.owed = @ - 1]

\* ProfileNotExistsException and LoginRequiredException (lines 172-178):
\* _load_profile_safely returns None and crawl_profile returns []
ProfileGivenUp ==
  /\ crawl.pc = "profile_result"
  /\ crawl.outcome \in {"not_exists", "login_required"}
  /\ crawl' = [crawl EXCEPT !.pc = "done"]
  /\ UNCHANGED analyzer

CrawlJitters == {1000}

\* delay = get_next_delay() times (attempt + 1), 1 or 2 (lines 148, 225, 303)
AskDelay ==
  \E j \in CrawlJitters :
    /\ crawl.pc \in {"profile_delay", "post_delay", "stories_delay"}
    /\ GetNextDelay(j)
    /\ crawl' = [crawl EXCEPT
                   !.pc = IF @ = "profile_delay" THEN "profile_wait"
                          ELSE IF @ = "post_delay" THEN "post_wait"
                          ELSE "stories_wait",
                   !.delay = ret' * (IF crawl.pc = "profile_delay"
                                     THEN crawl.attempt + 1
                                     ELSE IF crawl.pc = "post_delay" THEN 1
                                     ELSE StoriesFactor),
                   !.prep = "delayed"]

\* the wait_with_progress(delay) calls (lines 149, 186, 199, 222, 226, 278,
\* 304); the crawler goes on when the call has returned
Wait ==
  /\ Idle
  /\ crawl.pc \in {"profile_cooldown", "profile_wait", "batch_wait",
                   "post_wait", "post_recover", "stories_wait"}
  /\ WaitCall(1, crawl.delay)
  /\ crawl' = [crawl EXCEPT
                 !.pc = IF @ = "profile_cooldown" THEN "profile_delay"
                        ELSE IF @ = "profile_wait" THEN "profile_request"
                        ELSE IF @ = "batch_wait" THEN "post_delay"
                        ELSE IF @ = "post_wait" THEN "post_request"
                        ELSE IF @ = "post_recover" THEN "post_check"
                        ELSE "stories_request",
                 !.attempt = IF crawl.pc = "profile_cooldown"
                             THEN @ + 1 ELSE @,
                 !.posts = IF crawl.pc = "post_recover" THEN @ - 1 ELSE @,
                 !.prep = IF @ = "delayed" THEN "waited" ELSE "none"]

\* the head of the loop of _crawl_posts (lines 216-219)
PostCheck ==
  /\ crawl.pc = "post_check"
  /\ crawl.posts > 0
  /\ ShouldTakeBatchBreakCall(crawl.processed)
  /\ crawl' = [crawl EXCEPT !.pc = IF ret' THEN "batch_delay"
                                   ELSE "post_delay",
                             !.breaks = IF ret' THEN @ + 1 ELSE @]

\* line 220
AskBatchDelay ==
  /\ crawl.pc = "batch_delay"
  /\ GetBatchDelay
  /\ crawl' = [crawl EXCEPT !.pc = "batch_wait", !.delay = ret']

\* the iterator is exhausted: _crawl_posts returns, and _crawl_stories runs
\* if stories were asked for and a session exists (lines 123, 293)
PostsDone ==
  /\ Idle
  /\ crawl.pc = "post_check"
  /\ crawl.posts = 0
  /\ crawl' = [crawl EXCEPT !.pc = IF crawl.stories /\ crawl.session
                                   THEN "stories_delay" ELSE "done"]
  /\ UNCHANGED analyzer

\* the steps inside wait_with_progress
WaitSteps ==
  /\ WaitLoop(1) \/ WaitWake(1) \/ WaitWrite(1)
  /\ UNCHANGED crawl

\* the clock while the crawler sleeps: it is scheduled again when a plain
\* sleep ends and, in the progress loop, when the whole delay has passed
\* (the ticks in between only redraw the progress bar)
SleepThrough ==
  /\ wpc[1] \in {"sleep", "tick"}
  /\ now < wwake[1]
  /\ now' = IF wpc[1] = "tick"
            THEN Max(wwake[1], wstart[1] + wdelay[1])
            ELSE wwake[1]
  /\ UNCHANGED <<ctrl, last_request_time, file, waitvars, op, arg, ret, pre,
                 nrec, boots, saved, crawl>>

-----------------------------------------------------------------------------
(* Specifications *)

ItemCounts == {0, 1, 5, 10, 11, 20, 30}

RequestedDelays == {-1000, 0, 2500, 6000}

RecordNext ==
  \E kind \in Kinds :
    /\ nrec < MaxEvents
    /\ RecordEvent(kind, Outcome(kind).delay_used, "ok")
    /\ UNCHANGED crawl

NextDelayNext == \E j \in Jitters : GetNextDelay(j) /\ UNCHANGED crawl

BatchBreakNext ==
  \E n \in ItemCounts : ShouldTakeBatchBreakCall(n) /\ UNCHANGED crawl

BatchDelayNext == GetBatchDelay /\ UNCHANGED crawl

StatusNext == GetStatusReport /\ UNCHANGED crawl

\* the controller driven by one caller, no time passing between the calls
Next ==
  \/ RecordNext
  \/ NextDelayNext
  \/ BatchBreakNext
  \/ BatchDelayNext
  \/ StatusNext

Spec == Init /\ [][Next]_vars

RecordWaitNext ==
  \E kind \in Kinds :
    /\ nrec < MaxWaitEvents
    /\ RecordEvent(kind, Outcome(kind).delay_used, "ok")
    /\ UNCHANGED crawl

WaitNext ==
  /\ \E w \in Workers :
       \/ \E d \in RequestedDelays : WaitCall(w, d)
       \/ WaitLoop(w)
       \/ WaitWake(w)
       \/ WaitWrite(w)
       \/ WaitInterrupt(w)
  /\ UNCHANGED crawl

TickNext == \E dt \in ClockSteps : Tick(dt) /\ UNCHANGED crawl

\* one caller that also waits, and the clock
NextWait ==
  \/ RecordWaitNext
  \/ NextDelayNext
  \/ BatchBreakNext
  \/ BatchDelayNext
  \/ StatusNext
  \/ WaitNext
  \/ TickNext

InitWait == Init /\ file = <<>>

SpecWait == InitWait /\ [][NextWait]_vars

\* the outcomes recorded while saves and restarts are explored
PersistKinds == {"success", "rate_limit"}

PersistRuns ==
  { Rep(Outcome("success"), 20),
    <<Outcome("rate_limit")>> \o Rep(Outcome("success"), 99) }

PersistFiles ==
  {<<>>} \cup {PriorFile(s, a) : s \in PersistRuns, a \in SnapshotAges}

InitPersist == \E f \in PersistFiles : InitFrom(f) /\ crawl = NoCrawler

\* the file system is consulted only by a call that saves
RecordPersistNext ==
  \E kind \in PersistKinds, io \in IOOutcomes :
    /\ boots = 1
    /\ nrec < MaxPersistEvents
    /\ io # "ok" => (Len(events) + 1) % SaveEvery = 0
    /\ RecordEvent(kind, Outcome(kind).delay_used, io)
    /\ UNCHANGED crawl

\* less than a day, more than a day
Downtimes == {600000, 90000000}

RestartNext ==
  \E dt \in Downtimes :
    /\ boots < MaxBoots
    /\ Restart(dt)
    /\ UNCHANGED crawl

\* a first process that records and saves, then the processes after it
NextPersist ==
  \/ RecordPersistNext
  \/ RestartNext

SpecPersist == InitPersist /\ [][NextPersist]_vars

\* what a snapshot can have become since the program wrote it: its first
\* event entry has a key RateLimitEvent does not know, lacks a required key,
\* or lacks a key that has a default
Damages == {"none", "unknown_key", "no_timestamp", "no_response_time"}

DamagedEntry(d, how) ==
  IF how = "unknown_key"
  THEN [k \in DOMAIN d \cup {"status_code"} |->
          IF k \in DOMAIN d THEN d[k] ELSE 0]
  ELSE IF how = "no_timestamp"
  THEN [k \in DOMAIN d \ {"timestamp"} |-> d[k]]
  ELSE IF how = "no_response_time"
  THEN [k \in DOMAIN d \ {"response_time"} |-> d[k]]
  ELSE d

Damaged(f, how) ==
  <<JsonText([f[1].data EXCEPT
                !.recent_events = [@ EXCEPT ![1] = DamagedEntry(@, how)]])>>

LoadRuns ==
  { <<Outcome("error")>> \o Rep(Outcome("success"), 9),
    Rep(Outcome("error"), 3) \o Rep(Outcome("success"), 7),
    Rep(Outcome("success"), 20),
    Rep(Outcome("success"), 9) \o <<Outcome("rate_limit")>> }

\* inside the report window, outside it, a thousandth short of a day, a
\* day, more than a day
LoadAges == {600000, 7200000, MaxSnapshotAge - 1, MaxSnapshotAge, 90000000}

LoadFiles ==
  {<<>>, <<Truncated>>} \cup
  {Damaged(PriorFile(s, a), how) :
     s \in LoadRuns, a \in LoadAges, how \in Damages}

InitLoad == \E f \in LoadFiles : InitFrom(f) /\ crawl = NoCrawler

RecordLoadNext ==
  \E kind \in Kinds :
    /\ nrec < MaxLoadEvents
    /\ RecordEvent(kind, Outcome(kind).delay_used, "ok")
    /\ UNCHANGED crawl

\* a controller constructed over whatever analysis_file holds
NextLoad ==
  \/ RecordLoadNext
  \/ BatchDelayNext
  \/ StatusNext

SpecLoad == InitLoad /\ [][NextLoad]_vars

\* the command line has asked for a login or not, for stories or not
InitCrawl ==
  /\ InitFrom(<<>>)
  /\ \E use_login \in BOOLEAN, stories \in BOOLEAN :
       crawl = [NoCrawler EXCEPT
                  !.pc = IF use_login THEN "login" ELSE "profile_request",
                  !.stories = stories,
                  !.posts = MaxPosts]

RequestNext == \E outcome \in Kinds \cup {"not_exists", "login_required"} :
                 Request(outcome)

\* one session of the crawler on a controller of its own
NextCrawl ==
  \/ LoginFromFile
  \/ RequestNext
  \/ Report
  \/ ProfileGivenUp
  \/ AskDelay
  \/ Wait
  \/ PostCheck
  \/ AskBatchDelay
  \/ PostsDone
  \/ WaitSteps
  \/ SleepThrough

SpecCrawl == InitCrawl /\ [][NextCrawl]_vars

\* the failures recorded in a run of failures (a timeout is handled as an
\* error is, lines 66-69)
RunFailures == {"error", "rate_limit"}

\* a caller that records any outcomes at first and from then on only
\* successes, or only failures
RecordRunNext ==
  \E kind \in Kinds :
    /\ \/ nrec <= MaxPrefix
       \/ /\ op = "record_event"
          /\ kind \in {"success"} \cup RunFailures
          /\ (kind = "success") <=> (arg[1] = "success")
    /\ kind = "success" => consecutive_successes < MaxSuccessRun
    /\ kind \in Failures => consecutive_failures < MaxFailureRun
    /\ RecordEvent(kind, Outcome(kind).delay_used, "ok")
    /\ UNCHANGED crawl

NextRun == RecordRunNext

SpecRun == Init /\ [][NextRun]_vars

\* two threads that hold the same SmartAnalyzer, as the crawler and the
\* downloader of main() do; wait_with_progress takes no lock, so their calls
\* interleave between the floor block (lines 210-216), each sleep and the
\* write of last_request_time
Threads == {1, 2}

InitShared ==
  /\ file = <<>>
  /\ now = StartTime
  /\ events = FreshState.events
  /\ current_delay = FreshState.current_delay
  /\ consecutive_successes = FreshState.consecutive_successes
  /\ consecutive_failures = FreshState.consecutive_failures
  /\ rate_limit_detected = FreshState.rate_limit_detected
  /\ last_request_time = 0
  /\ wpc = [w \in Threads |-> "idle"]
  /\ wdelay = [w \in Threads |-> 0]
  /\ wstart = [w \in Threads |-> 0]
  /\ wwake = [w \in Threads |-> 0]
  /\ op = "init"
  /\ arg = <<>>
  /\ ret = <<>>
  /\ pre = [current_delay |-> FreshState.current_delay,
            consecutive_successes |-> FreshState.consecutive_successes,
            consecutive_failures |-> FreshState.consecutive_failures,
            rate_limit_detected |-> FreshState.rate_limit_detected,
            last_request_time |-> 0,
            nevents |-> 0]
  /\ nrec = 0
  /\ boots = 1
  /\ saved = NothingSaved
  /\ crawl = NoCrawler

SharedWaitNext ==
  /\ \E w \in Threads :
       \/ \E d \in RequestedDelays : WaitCall(w, d)
       \/ WaitLoop(w)
       \/ WaitWake(w)
       \/ WaitWrite(w)
  /\ UNCHANGED crawl

NextShared ==
  \/ SharedWaitNext
  \/ TickNext

SpecShared == InitShared /\ [][NextShared]_vars

\* one caller that only waits, on a clock that runs long enough for a sleep
\* to overrun
SleepDelays == {2500, 5500}

Pass(dt) ==
  /\ now + dt <= StartTime + MaxSleepTicks * 1000
  /\ now' = now + dt
  /\ UNCHANGED <<ctrl, last_request_time, file, waitvars, op, arg, ret, pre,
                 nrec, boots, saved, crawl>>

SleepWaitNext ==
  /\ \E w \in Workers :
       \/ \E d \in SleepDelays : WaitCall(w, d)
       \/ WaitLoop(w)
       \/ WaitWake(w)
       \/ WaitWrite(w)
  /\ UNCHANGED crawl

PassNext == \E dt \in ClockSteps : Pass(dt)

NextSleep ==
  \/ SleepWaitNext
  \/ PassNext

SpecSleep == InitWait /\ [][NextSleep]_vars

-----------------------------------------------------------------------------
(* Properties *)

Recorded(kinds) == op = "record_event" /\ arg[1] \in kinds

\* C1: after every record_event call, whatever the mix of outcomes,
\* min_delay <= current_delay <= max_dynamic_delay.
C1_DelayInRange ==
  min_delay <= current_delay /\ current_delay <= max_dynamic_delay

\* a failure has just pushed the delay to the upper clamp
C1_Witness ==
  /\ Recorded(Failures)
  /\ current_delay = max_dynamic_delay
  /\ pre.current_delay < max_dynamic_delay
  /\ pre.current_delay * RateLimitFactor > max_dynamic_delay

\* C2: the two counters are never both nonzero; a success resets
\* consecutive_failures to 0 and every failure resets consecutive_successes
\* to 0.
C2_CountersExclusive ==
  /\ ~(consecutive_successes # 0 /\ consecutive_failures # 0)
  /\ Recorded({"success"}) =>
       /\ consecutive_failures = 0
       /\ consecutive_successes = pre.consecutive_successes + 1
  /\ Recorded(Failures) =>
       /\ consecutive_successes = 0
       /\ consecutive_failures = pre.consecutive_failures + 1

\* a failure has just reset a nonzero success counter
C2_Witness ==
  /\ Recorded(Failures)
  /\ pre.consecutive_successes > 0
  /\ consecutive_successes = 0
  /\ consecutive_failures = 1

\* C3 as stated: at every instant, right after construction included,
\* exactly one of the two counters is nonzero.
C3_ExactlyOneNonzero ==
  (consecutive_successes # 0) <=> (consecutive_failures = 0)

\* C3 amended: at every instant at most one of the two counters is nonzero;
\* both are zero right after a construction that loaded no snapshot, and
\* exactly one is nonzero once an outcome has been recorded.
C3_AtMostOneNonzero ==
  /\ consecutive_successes = 0 \/ consecutive_failures = 0
  /\ (nrec = 0 /\ file = <<>>) =>
       (consecutive_successes = 0 /\ consecutive_failures = 0)
  /\ nrec > 0 =>
       ((consecutive_successes # 0) <=> (consecutive_failures = 0))

\* the first outcome after a fresh construction was a failure
C3_Witness ==
  /\ file = <<>>
  /\ nrec = 1
  /\ consecutive_failures = 1
  /\ consecutive_successes = 0

\* C4: record_event leaves rate_limit_detected true after a rate_limit,
\* false after a success, and as it was after an error or a timeout.
C4_FlagFollowsKind ==
  /\ Recorded({"rate_limit"}) => rate_limit_detected
  /\ Recorded({"success"}) => ~rate_limit_detected
  /\ Recorded({"error", "timeout"}) =>
       (rate_limit_detected = pre.rate_limit_detected)

\* an error recorded while the flag was set has left it set
C4_Witness ==
  /\ Recorded({"error"})
  /\ pre.rate_limit_detected
  /\ rate_limit_detected
  /\ consecutive_failures >= 3

\* C5: a success that brings consecutive_successes to 5 or more sets
\* current_delay to max(min_delay, old * success_reduction): the delay
\* strictly decreases unless it was already min_delay.
C5_SuccessReduces ==
  (Recorded({"success"}) /\ consecutive_successes >= 5) =>
    /\ current_delay =
         Max(min_delay, (pre.current_delay * success_reduction) \div 1000)
    /\ pre.current_delay > min_delay => current_delay < pre.current_delay
    /\ pre.current_delay = min_delay => current_delay = min_delay

\* a fifth or later success has just lowered a delay above min_delay
C5_Witness ==
  /\ Recorded({"success"})
  /\ consecutive_successes >= 5
  /\ current_delay < pre.current_delay
  /\ current_delay > min_delay

\* C6: a failure that brings consecutive_failures to 2 or more multiplies
\* current_delay by failure_increase and clamps it to max_dynamic_delay
\* (before the rate-limit doubling, if the flag is set): the delay strictly
\* increases unless it was already max_dynamic_delay.
C6_FailureIncreases ==
  (Recorded(Failures) /\ consecutive_failures >= 2) =>
    LET stepped == Min((pre.current_delay * failure_increase) \div 1000,
                       max_dynamic_delay)
    IN  /\ current_delay = IF rate_limit_detected
                           THEN Min(max_dynamic_delay, stepped * 2)
                           ELSE stepped
        /\ pre.current_delay < max_dynamic_delay =>
             current_delay > pre.current_delay
        /\ pre.current_delay = max_dynamic_delay =>
             current_delay = max_dynamic_delay

\* a second error in a row, flag clear, has raised the delay by half
C6_Witness ==
  /\ Recorded({"error", "timeout"})
  /\ consecutive_failures = 2
  /\ ~rate_limit_detected
  /\ current_delay > pre.current_delay
  /\ current_delay < max_dynamic_delay

\* C7: a failure recorded with rate_limit_detected set doubles current_delay
\* (clamped) after the failure-increase step and its clamp; from a fresh
\* controller, rate_limit then error leaves the flag set and the delay 18.0.
C7_RateLimitDoubles ==
  /\ (Recorded(Failures) /\ rate_limit_detected) =>
       current_delay =
         Min(max_dynamic_delay,
             2 * (IF consecutive_failures >= 2
                  THEN Min((pre.current_delay * failure_increase) \div 1000,
                           max_dynamic_delay)
                  ELSE pre.current_delay))
  /\ (/\ nrec = 2
      /\ Len(events) = 2
      /\ events[1].event_type = "rate_limit"
      /\ events[2].event_type = "error") =>
       (rate_limit_detected /\ current_delay = 18000)

\* fresh controller, rate_limit then error
C7_Witness ==
  /\ nrec = 2
  /\ Len(events) = 2
  /\ events[1].event_type = "rate_limit"
  /\ events[2].event_type = "error"
  /\ op = "record_event"
  /\ pre.current_delay = 6000

\* C8: two consecutive updates of last_request_time by wait_with_progress
\* are at least min_delay apart, whatever delay was requested.
C8_SpacingFloor ==
  (op = "wait_with_progress" /\ pre.last_request_time > 0) =>
    last_request_time - pre.last_request_time >= min_delay

\* wait(0) right after a wait: the second update comes min_delay later
C8_Witness ==
  /\ op = "wait_with_progress"
  /\ arg = <<0>>
  /\ pre.last_request_time > 0
  /\ last_request_time = pre.last_request_time + min_delay

\* C9: get_next_delay returns
\* min(max_dynamic_delay, current_delay * j * (2 if flag else 1)) for its
\* jitter draw j in [0.8, 1.2], so never more than max_dynamic_delay.
C9_NextDelayClamped ==
  op = "get_next_delay" =>
    /\ arg[1] >= JitterLow /\ arg[1] <= JitterHigh
    /\ ret <= max_dynamic_delay
    /\ ret = Min(max_dynamic_delay,
                 ((pre.current_delay * arg[1]) \div 1000)
                   * (IF pre.rate_limit_detected THEN 2 ELSE 1))

\* the clamp has cut a doubled, jittered delay
C9_Witness ==
  /\ op = "get_next_delay"
  /\ pre.rate_limit_detected
  /\ ret = max_dynamic_delay
  /\ ((pre.current_delay * arg[1]) \div 1000) * 2 > max_dynamic_delay
  /\ pre.current_delay < max_dynamic_delay

ReadOps ==
  {"get_next_delay", "should_take_batch_break", "get_batch_delay",
   "get_status_report"}

\* C10: the delay, the counters, the flag and the event log change only in
\* record_event; last_request_time changes only in wait_with_progress; the
\* four queries change none of them.
C10_Frame ==
  [][ /\ ctrl' # ctrl => (op' = "record_event" /\ nrec' = nrec + 1)
      /\ last_request_time' # last_request_time => op' = "wait_with_progress"
      /\ op' \in ReadOps =>
           UNCHANGED <<ctrl, last_request_time, file, waitvars>> ]_vars

\* a query has run on a controller that has recorded an outcome and waited
C10_Witness ==
  /\ op \in ReadOps
  /\ nrec > 0
  /\ last_request_time > 0
  /\ pre.current_delay = current_delay

\* the file holds the snapshot the last writing _save_analysis call wrote
\* and the controller has just been constructed less than a day after it
LoadedOwnSnapshot ==
  /\ op = "init"
  /\ boots > 1
  /\ saved.calls > 0
  /\ file # <<>>
  /\ file[1].valid
  /\ file[1].data.last_updated = saved.at
  /\ now - saved.at < MaxSnapshotAge

\* C11 as stated: a controller constructed less than 24 hours after a save
\* has the current_delay, the counters, the flag and the event list of the
\* controller that saved.
C11_RoundTripIdentical ==
  LoadedOwnSnapshot =>
    /\ current_delay = saved.st.current_delay
    /\ consecutive_successes = saved.st.consecutive_successes
    /\ consecutive_failures = saved.st.consecutive_failures
    /\ rate_limit_detected = saved.st.rate_limit_detected
    /\ events = saved.st.events

\* C11 amended: a controller constructed less than 24 hours after a save has
\* the current_delay, the counters and the flag of the controller that
\* saved, and as its event list the last min(100, n) events of that
\* controller's n events, in the same order and with the same fields.
C11_RoundTripLastEvents ==
  LoadedOwnSnapshot =>
    /\ current_delay = saved.st.current_delay
    /\ consecutive_successes = saved.st.consecutive_successes
    /\ consecutive_failures = saved.st.consecutive_failures
    /\ rate_limit_detected = saved.st.rate_limit_detected
    /\ Len(events) = Min(KeepEvents, Len(saved.st.events))
    /\ \A i \in 1..Len(events) :
         events[i] =
           saved.st.events[Len(saved.st.events) - Len(events) + i]

\* a log of 110 events was saved and 100 of them have come back
C11_Witness ==
  /\ LoadedOwnSnapshot
  /\ Len(saved.st.events) = KeepEvents + SaveEvery
  /\ Len(events) = KeepEvents
  /\ events[1] = saved.st.events[SaveEvery + 1]
  /\ \E i \in 1..Len(events) : events[i].event_type = "rate_limit"

\* the file is a snapshot whose entries can all be turned into events
WellFormedFile ==
  /\ file # <<>>
  /\ file[1].valid
  /\ \A i \in DOMAIN file[1].data.recent_events :
       Accepts(file[1].data.recent_events[i])

\* the fields as the snapshot in the file has them
FieldsOfFile ==
  /\ current_delay = file[1].data.current_delay
  /\ consecutive_successes = file[1].data.consecutive_successes
  /\ consecutive_failures = file[1].data.consecutive_failures
  /\ rate_limit_detected = file[1].data.rate_limit_detected
  /\ Len(events) = Len(file[1].data.recent_events)
  /\ \A i \in 1..Len(events) :
       /\ events[i].timestamp = file[1].data.recent_events[i].timestamp
       /\ events[i].event_type = file[1].data.recent_events[i].event_type
       /\ events[i].delay_used = file[1].data.recent_events[i].delay_used

\* the fields as __init__ sets them
FieldsFresh ==
  /\ current_delay = min_delay
  /\ consecutive_successes = 0
  /\ consecutive_failures = 0
  /\ ~rate_limit_detected
  /\ events = <<>>

\* C12 as stated: a snapshot is discarded on load exactly when its
\* last_updated is more than 24 hours in the past, one aged exactly 24 hours
\* is loaded; a controller that discarded it starts fresh.
C12_DiscardedPastADay ==
  (nrec = 0 /\ boots = 1 /\ WellFormedFile) =>
    IF now - file[1].data.last_updated > MaxSnapshotAge
    THEN FieldsFresh
    ELSE FieldsOfFile

\* C12 amended: a snapshot is discarded on load exactly when its last_updated
\* is 24 hours or more in the past, so one aged exactly 24 hours is
\* discarded and one aged less is loaded; a controller that discarded it
\* starts with current_delay = min_delay, both counters 0, the flag false and
\* an empty event log.
C12_DiscardedFromADay ==
  (nrec = 0 /\ boots = 1 /\ WellFormedFile) =>
    IF now - file[1].data.last_updated >= MaxSnapshotAge
    THEN FieldsFresh
    ELSE FieldsOfFile

\* a snapshot of twenty successes, aged exactly one day, was discarded
C12_Witness ==
  /\ nrec = 0
  /\ boots = 1
  /\ WellFormedFile
  /\ now - file[1].data.last_updated = MaxSnapshotAge
  /\ file[1].data.consecutive_successes = 20
  /\ consecutive_successes = 0
  /\ events = <<>>

\* C13: a controller constructed over a malformed snapshot (a file that is
\* not JSON, or a snapshot less than a day old with an entry of recent_events
\* that cannot be turned into an event) starts in the fresh state, with no
\* field taken from the snapshot.
C13_MalformedIsAbsent ==
  (nrec = 0 /\ boots = 1 /\ file # <<>> /\ ~WellFormedFile) => FieldsFresh

\* C14: record_event never fails: when the save it triggers hits an I/O
\* failure, the call returns and leaves the event log, the counters, the flag
\* and current_delay exactly as the same call with a successful save does.
C14_SaveFailureSwallowed ==
  [][ (op' = "record_event" /\ arg'[3] # "ok") =>
        LET ok == RecordStep([events |-> events,
                              current_delay |-> current_delay,
                              consecutive_successes |-> consecutive_successes,
                              consecutive_failures |-> consecutive_failures,
                              rate_limit_detected |-> rate_limit_detected],
                             file, arg'[1], arg'[2], now, "ok")
        IN  /\ ret' = <<>>
            /\ ok.saves
            /\ events' = ok.st.events
            /\ current_delay' = ok.st.current_delay
            /\ consecutive_successes' = ok.st.consecutive_successes
            /\ consecutive_failures' = ok.st.consecutive_failures
            /\ rate_limit_detected' = ok.st.rate_limit_detected
            /\ file' # ok.file ]_vars

\* the 110th event was recorded while the write of the snapshot failed
C14_Witness ==
  /\ op = "record_event"
  /\ arg[3] = "write_fails"
  /\ ret = <<>>
  /\ file = <<Truncated>>
  /\ Len(events) = KeepEvents + SaveEvery
  /\ events[Len(events)].event_type = arg[1]
  /\ saved.calls = 1

\* C15: record_event calls _save_analysis exactly when the event log, the
\* events loaded from a snapshot included, has a multiple of 10 events once
\* the new event is appended; no other call saves or touches the file.
C15_SaveEveryTenth ==
  [][ op' = "record_event" =>
        IF Len(events') % SaveEvery = 0
        THEN /\ saved'.calls = saved.calls + 1
             /\ arg'[3] = "ok" =>
                  /\ file' # <<>>
                  /\ file'[1].valid
                  /\ file'[1].data.last_updated = now
                  /\ saved'.at = now
        ELSE /\ saved' = saved
             /\ file' = file ]_vars

\* the tenth call after a load of twenty events saved a log of thirty
C15_Witness ==
  /\ op = "record_event"
  /\ nrec = SaveEvery
  /\ Len(events) = 3 * SaveEvery
  /\ saved.calls = 1
  /\ saved.at = now
  /\ file[1].valid
  /\ file[1].data.last_updated = now

\* C16: a snapshot written by _save_analysis holds at most 100 events: the
\* most recent min(100, n) of the n events of the in-memory log, in their
\* original order.
C16_SnapshotKeepsLastHundred ==
  (op = "record_event" /\ arg[3] = "ok" /\ Len(events) % SaveEvery = 0) =>
    LET kept == file[1].data.recent_events
        n    == Len(events)
    IN  /\ Len(kept) <= KeepEvents
        /\ Len(kept) = Min(KeepEvents, n)
        /\ \A i \in 1..Len(kept) :
             \A k \in EventKeys :
               kept[i][k] = events[n - Len(kept) + i][k]

\* a log of 110 events was saved without its ten oldest
C16_Witness ==
  /\ op = "record_event"
  /\ arg[3] = "ok"
  /\ Len(events) = KeepEvents + SaveEvery
  /\ Len(file[1].data.recent_events) = KeepEvents
  /\ file[1].data.recent_events[1].timestamp = events[SaveEvery + 1].timestamp
  /\ events[1].timestamp < events[SaveEvery + 1].timestamp
  /\ file[1].data.recent_events[KeepEvents].timestamp = now

\* C17: the in-memory event log is append-only: record_event appends exactly
\* one event, the one it was called with, and leaves every earlier event in
\* place and unchanged; events leave the log only in bulk, when a controller
\* is constructed and takes the at most 100 events of the snapshot or none.
C17_AppendOnly ==
  [][ /\ op' = "record_event" =>
           /\ Len(events') = Len(events) + 1
           /\ \A i \in 1..Len(events) : events'[i] = events[i]
           /\ events'[Len(events')].event_type = arg'[1]
           /\ events'[Len(events')].delay_used = arg'[2]
           /\ events'[Len(events')].timestamp = now
      /\ op' # "record_event" =>
           \/ events' = events
           \/ /\ op' = "init"
              /\ boots' = boots + 1
              /\ Len(events') <= KeepEvents
              /\ events' = <<>> \/
                   Len(events') = Len(file[1].data.recent_events) ]_vars

\* the call that saved a log of 110 events left all 110 in memory
C17_Witness ==
  /\ op = "record_event"
  /\ arg[3] = "ok"
  /\ Len(events) = KeepEvents + SaveEvery
  /\ saved.calls = 1
  /\ Len(file[1].data.recent_events) = KeepEvents
  /\ events[1].event_type = "rate_limit"

\* the positions of the events of the last hour, and of the successes
\* among them
InWindow == {i \in 1..Len(events) : now - events[i].timestamp < ReportWindow}

SuccessesInWindow == {i \in InWindow : events[i].event_type = "success"}

\* C18: with at least one event in the last hour get_status_report
\* classifies by strict priority: rate_limited when the flag is set, whatever
\* the success rate; else optimal above 0.9; else cautious above 0.7; else
\* problematic; a rate of exactly 0.9 is cautious and one of exactly 0.7 is
\* problematic; the rate is the successes over all events of the window.
C18_StatusClasses ==
  (op = "get_status_report" /\ InWindow # {}) =>
    LET n    == Cardinality(InWindow)
        succ == Cardinality(SuccessesInWindow)
    IN  /\ ret.success_rate = <<succ, n>>
        /\ rate_limit_detected => ret.status = "rate_limited"
        /\ (~rate_limit_detected /\ 10 * succ > 9 * n) =>
             ret.status = "optimal"
        /\ (~rate_limit_detected /\ 10 * succ <= 9 * n /\ 10 * succ > 7 * n) =>
             ret.status = "cautious"
        /\ (~rate_limit_detected /\ 10 * succ <= 7 * n) =>
             ret.status = "problematic"

\* nine successes out of ten events, flag clear: cautious
C18_Witness ==
  /\ op = "get_status_report"
  /\ ~rate_limit_detected
  /\ Cardinality(InWindow) = 10
  /\ Cardinality(SuccessesInWindow) = 9
  /\ ret.status = "cautious"

\* C19: with no event in the last hour get_status_report returns status
\* no_data, the current delay and rate_limit_detected = false, even while the
\* controller's flag is set.
C19_NoDataHidesFlag ==
  (op = "get_status_report" /\ InWindow = {}) =>
    /\ ret.status = "no_data"
    /\ ret.current_delay = current_delay
    /\ ret.rate_limit_detected = FALSE

\* the flag came from a snapshot whose events are two hours old
C19_Witness ==
  /\ op = "get_status_report"
  /\ InWindow = {}
  /\ events # <<>>
  /\ events[Len(events)].event_type = "rate_limit"
  /\ rate_limit_detected
  /\ ret.status = "no_data"
  /\ ~ret.rate_limit_detected

\* C20: get_batch_delay returns batch_delay * 1.5 when rate_limit_detected is
\* set, else batch_delay * 0.8 when consecutive_successes > 20, else
\* batch_delay; the flag decides first, whatever the counter.
C20_BatchDelayCases ==
  /\ op = "get_batch_delay" =>
       /\ rate_limit_detected => ret = (batch_delay * 3) \div 2
       /\ (~rate_limit_detected /\ consecutive_successes > 20) =>
            ret = (batch_delay * 4) \div 5
       /\ (~rate_limit_detected /\ consecutive_successes <= 20) =>
            ret = batch_delay
  /\ \A cs \in 0..(BatchBonusThreshold + 2) :
       /\ BatchDelay(TRUE, cs) = (batch_delay * 3) \div 2
       /\ BatchDelay(FALSE, cs) =
            IF cs > 20 THEN (batch_delay * 4) \div 5 ELSE batch_delay

\* the twenty-first success in a row has shortened the batch break
C20_Witness ==
  /\ op = "get_batch_delay"
  /\ ~rate_limit_detected
  /\ consecutive_successes = 21
  /\ nrec = 1
  /\ ret = 240000

\* C21: should_take_batch_break(n) is true if and only if n > 0 and n is a
\* multiple of batch_size: with batch_size = 10, true for 10, 20, 30 and
\* false for 0.
C21_BatchBreakMultiples ==
  op = "should_take_batch_break" =>
    /\ ret = (arg[1] > 0 /\ \E k \in 1..arg[1] : arg[1] = k * batch_size)
    /\ arg[1] \in {10, 20, 30} => ret = TRUE
    /\ arg[1] = 0 => ret = FALSE

\* the call with no item processed yet answered no
C21_Witness ==
  /\ op = "should_take_batch_break"
  /\ arg = <<0>>
  /\ ret = FALSE

\* C22: a wait interrupted during its sleep or its progress loop does not
\* advance last_request_time: the field keeps the value it had when the wait
\* was called.
C22_InterruptKeepsInstant ==
  op = "wait_interrupted" => last_request_time = pre.last_request_time

\* a wait that followed a completed one was interrupted a second after the
\* call
C22_Witness ==
  /\ op = "wait_interrupted"
  /\ pre.last_request_time > 0
  /\ last_request_time = pre.last_request_time
  /\ now > last_request_time

\* the controller fields record_event(kind, ..) would leave from this state
After(kind) ==
  RecordStep([events |-> events,
              current_delay |-> current_delay,
              consecutive_successes |-> consecutive_successes,
              consecutive_failures |-> consecutive_failures,
              rate_limit_detected |-> rate_limit_detected],
             file, kind, Outcome(kind).delay_used, now, "ok").st

\* C23: from any state record_event('timeout') and record_event('error')
\* leave the same current_delay, counters and flag; record_event('rate_limit')
\* leaves the same counters, sets the flag, and leaves the delay of the error
\* doubled (clamped) if the flag was clear, the same delay if it was set.
C23_TimeoutIsError ==
  LET e == After("error")
      t == After("timeout")
      r == After("rate_limit")
  IN  /\ t.current_delay = e.current_delay
      /\ t.consecutive_successes = e.consecutive_successes
      /\ t.consecutive_failures = e.consecutive_failures
      /\ t.rate_limit_detected = e.rate_limit_detected
      /\ r.consecutive_successes = e.consecutive_successes
      /\ r.consecutive_failures = e.consecutive_failures
      /\ r.rate_limit_detected
      /\ r.current_delay =
           IF e.rate_limit_detected THEN e.current_delay
           ELSE Min(max_dynamic_delay, 2 * e.current_delay)
      /\ Recorded({"error", "timeout"}) =>
           /\ consecutive_successes = 0
           /\ consecutive_failures = pre.consecutive_failures + 1
           /\ rate_limit_detected = pre.rate_limit_detected

\* a second timeout in a row, flag clear, has raised the delay as an error
\* would, and a rate_limit in its place would have doubled that
C23_Witness ==
  /\ Recorded({"timeout"})
  /\ ~rate_limit_detected
  /\ consecutive_failures = 2
  /\ current_delay = (pre.current_delay * failure_increase) \div 1000
  /\ current_delay > pre.current_delay
  /\ 2 * current_delay < max_dynamic_delay

\* C24: in the crawler every external request attempt (login, each
\* profile-load attempt including the first, each post, the stories fetch) is
\* issued only after a get_next_delay call followed by a wait_with_progress
\* call made since the previous request
C24_DelayAndWaitBeforeRequest ==
  [][(op' = "request" /\ crawl'.owed = crawl.owed + 1) =>
       crawl.prep = "waited"]_vars

\* C25: in the crawler every external request attempt is followed by exactly
\* one record_event call, whatever way the attempt ends: at most one request
\* is unreported at any time, and none once the crawler has left the handler
\* of the request
C25_EveryRequestReported ==
  /\ crawl.owed \in {0, 1}
  /\ crawl.owed = 1 =>
       crawl.pc \in {"login_result", "profile_result", "post_result",
                     "stories_result"}

\* C26: the min_delay floor holds across all callers of one controller: when
\* the wait_with_progress calls of two threads interleave, every return
\* writes a last_request_time at least min_delay after the one it replaces,
\* and last_request_time never moves backwards
C26_FloorAcrossCallers ==
  [][ /\ last_request_time' >= last_request_time
      /\ (op' = "wait_with_progress" /\ wpc' # wpc /\ last_request_time > 0)
           => last_request_time' - last_request_time >= min_delay ]_vars

\* C27: an uninterrupted wait_with_progress call with a positive effective
\* delay d sets last_request_time only as it returns, and returns no sooner
\* than d after it started.  For d <= 5 it makes one sleep, due d after the
\* call.  For d > 5 it starts a sleep of one tick only while less than d has
\* elapsed, so that its last sleep is due less than one tick after d.
C27_WaitsAtLeastDelay ==
  [][\A w \in Workers :
       /\ (op' = "wait_call" /\ wpc[w] = "idle" /\ wpc'[w] = "sleep") =>
            /\ wdelay'[w] > 0 /\ wdelay'[w] <= ProgressThreshold
            /\ wwake'[w] = now + wdelay'[w]
       /\ (op' = "wait_call" /\ wpc[w] = "idle" /\ wpc'[w] = "loop") =>
            /\ wdelay'[w] > ProgressThreshold
            /\ wstart'[w] = now
       /\ (wpc[w] = "sleep" /\ wpc'[w] # "sleep") =>
            /\ wpc'[w] = "write"
            /\ now >= wwake[w]
       /\ (wpc[w] = "loop" /\ wpc'[w] = "tick") =>
            /\ now - wstart[w] < wdelay[w]
            /\ wwake'[w] = now + ProgressTick
       /\ (wpc[w] = "tick" /\ wpc'[w] # "tick") =>
            /\ wpc'[w] = "loop"
            /\ now >= wwake[w]
       /\ (wpc[w] = "loop" /\ wpc'[w] = "write") =>
            /\ now - wstart[w] >= wdelay[w]
            /\ wwake[w] - wstart[w] < wdelay[w] + ProgressTick
       /\ last_request_time' # last_request_time =>
            /\ wpc[w] = "write" /\ wpc'[w] = "idle"
            /\ last_request_time' = now
     ]_vars

\* C27 as stated: for d > 5 the call returns at most one tick after d
C27_ReturnsWithinATick ==
  \A w \in Workers :
    (wpc[w] = "write" /\ wdelay[w] > ProgressThreshold) =>
      now - wstart[w] <= wdelay[w] + ProgressTick

\* a wait of 5.5 s is about to return 6 s after it started, every sleep of
\* its loop having ended when due
C27_Witness ==
  /\ wpc[1] = "write"
  /\ wdelay[1] > ProgressThreshold
  /\ now - wstart[1] >= wdelay[1]
  /\ now - wstart[1] < wdelay[1] + ProgressTick
  /\ now = wwake[1]

\* C28: outcomes below the thresholds leave current_delay unchanged: a
\* success that brings consecutive_successes to at most 4, and an error or
\* timeout that brings consecutive_failures to exactly 1 while
\* rate_limit_detected is clear, change only the counters, the flag and the
\* event log
C28_BelowThresholds ==
  LET quiet == \/ /\ Recorded({"success"})
                  /\ consecutive_successes < SuccessThreshold
               \/ /\ Recorded({"error", "timeout"})
                  /\ consecutive_failures = 1
                  /\ ~rate_limit_detected
  IN  quiet =>
        /\ current_delay = pre.current_delay
        /\ last_request_time = pre.last_request_time
        /\ Len(events) = pre.nevents + 1

\* a third success in a row has left a delay above min_delay as it was
C28_Witness ==
  /\ Recorded({"success"})
  /\ consecutive_successes = 3
  /\ current_delay = pre.current_delay
  /\ current_delay > min_delay
  /\ Mul(current_delay, success_reduction) < current_delay

\* C29: in every reachable state of the controller rate_limit_detected
\* implies consecutive_successes = 0 and consecutive_failures >= 1; hence,
\* while the flag is set, the success bonus of get_batch_delay and the
\* success step of _adjust_delay are not enabled and the doubling step is
C29_FlagMeansFailing ==
  rate_limit_detected =>
    /\ consecutive_successes = 0
    /\ consecutive_failures >= 1
    /\ ~(consecutive_successes > BatchBonusThreshold)
    /\ ~(consecutive_successes >= SuccessThreshold)
    /\ BatchDelay(TRUE, consecutive_successes) = Mul(batch_delay, BatchPenalty)
    /\ AdjustDelay(current_delay, consecutive_successes,
                   consecutive_failures, TRUE)
         = RateLimitStep(IF consecutive_failures >= FailureThreshold
                         THEN FailureStep(current_delay)
                         ELSE current_delay)

\* an error recorded while the flag is set: the flag stays, with a second
\* failure counted
C29_Witness ==
  /\ Recorded({"error"})
  /\ rate_limit_detected
  /\ pre.rate_limit_detected
  /\ consecutive_failures = 2
  /\ consecutive_successes = 0

\* C30: from any reachable state, recording a success never increases
\* current_delay and recording a rate_limit, error or timeout never
\* decreases it
C30_DirectionFollowsOutcome ==
  /\ After("success").current_delay <= current_delay
  /\ \A kind \in Failures : After(kind).current_delay >= current_delay
  /\ Recorded({"success"}) => current_delay <= pre.current_delay
  /\ Recorded(Failures) => current_delay >= pre.current_delay

\* a success has lowered the delay, and a failure recorded next would raise
\* it again
C30_Witness ==
  /\ Recorded({"success"})
  /\ current_delay < pre.current_delay
  /\ After("rate_limit").current_delay > current_delay

\* C32: in _crawl_posts a batch cooldown is taken at most once for each
\* multiple of batch_size the processed-item count has reached, also when an
\* iteration ends without incrementing processed_count
C32_OneBreakPerMultiple ==
  crawl.breaks <= crawl.processed \div batch_size

\* success steps that take a delay d down to min_delay
RECURSIVE StepsDown(_)
StepsDown(d) == IF d <= min_delay THEN 0 ELSE 1 + StepsDown(SuccessStep(d))

\* failure steps that take a delay d up to max_dynamic_delay
RECURSIVE StepsUp(_)
StepsUp(d) == IF d >= max_dynamic_delay THEN 0 ELSE 1 + StepsUp(FailureStep(d))

\* successes in a row after which the delay has come down from any value
RecoverySteps == SuccessThreshold - 1 + StepsDown(max_dynamic_delay)

\* failures in a row after which the delay has gone up from any value
SaturationSteps == FailureThreshold - 1 + StepsUp(min_delay)

\* C31: recovery and saturation are reached in finitely many steps: once
\* RecoverySteps successes have been recorded in a row, from whatever state,
\* current_delay = min_delay with rate_limit_detected false, and every
\* further success keeps it there; once SaturationSteps failures have been
\* recorded in a row current_delay = max_dynamic_delay, and every further
\* failure keeps it there
C31_RecoversAndSaturates ==
  /\ consecutive_successes >= RecoverySteps =>
       /\ current_delay = min_delay
       /\ ~rate_limit_detected
       /\ After("success").current_delay = min_delay
       /\ ~After("success").rate_limit_detected
  /\ consecutive_failures >= SaturationSteps =>
       /\ current_delay = max_dynamic_delay
       /\ \A kind \in Failures :
            After(kind).current_delay = max_dynamic_delay

\* the last success of a run that started at max_dynamic_delay brings the
\* delay down to min_delay
C31_Witness ==
  /\ Recorded({"success"})
  /\ consecutive_successes = RecoverySteps
  /\ pre.current_delay > min_delay
  /\ current_delay = min_delay
  /\ ~rate_limit_detected

====
